---- MODULE Spec2Model ----
(***************************************************************************)
(* A model of the PassTheSalt secret store engine (passthesalt/core.py):   *)
(* the Secret variants with their context binding, the encrypted substore  *)
(* that is decrypted, changed and re-encrypted as a whole, the master key, *)
(* and the store's add / get / pop / remove / move / labels / resolve.     *)
(*                                                                         *)
(* Strings are sequences of one-character strings, so that joining and     *)
(* regular-expression matching are computed and not assumed.  A Python     *)
(* object is an identifier of Objs with its attributes in objs; the outer  *)
(* mapping holds identifiers, so one object may be held under two labels.  *)
(* A method is an operator from a store record to a store record; the      *)
(* field err carries the exception that ended it ("ok" when none did) and  *)
(* the field ret the value it returned.                                    *)
(***************************************************************************)
EXTENDS Integers, Sequences, FiniteSets, TLC

VARIABLES
    secrets,            \* PassTheSalt.secrets: the label -> Secret dict, in insertion order
    secrets_encrypted,  \* PassTheSalt.secrets_encrypted: None or a ciphertext
    master,             \* PassTheSalt._master: None, a string or a callback
    owner,              \* PassTheSalt.config.owner: None or a string
    modified,           \* PassTheSalt.modified: the store's modification timestamp
    objs,               \* the attributes of every Secret object
    calls,              \* how often the configured callback has been invoked
    op,                 \* the name of the caller's last operation
    nops,               \* how many operations the caller has performed
    result,             \* how it ended: the exception, the value returned, the keys read
    serial,             \* a serialized Secret record, and what from_dict and to_dict make of it
    threads             \* the callers that are inside pts.add at the same time

vars == <<secrets, secrets_encrypted, master, owner, modified, objs, calls, op, nops, result,
          serial, threads>>

---------------------------------------------------------------------------
(* Bounds of the model. *)

\* The caller performs at most this many operations.
MaxOps == 5

\* Patterns given to labels() and resolve() have at most this many characters.
MaxPatternLen == 2

\* The iteration of a Login is unset or at most this number.
MaxIteration == 11

---------------------------------------------------------------------------
(* The values of the model. *)

\* The labels the caller uses: "a" and "ab".
Labels == {<<"a">>, <<"a", "b">>}

\* The characters of a pattern: two letters, the wildcard and the repeat.
PatternChars == {"a", "b", ".", "*"}

\* The strings of at most n characters of S.
SeqsUpTo(S, n) == UNION {[1..k -> S] : k \in 0..n}

Patterns == SeqsUpTo(PatternChars, MaxPatternLen)

\* The master passwords, the owner and the plaintexts the caller uses.
Passwords == {<<"m">>, <<"n">>}
Owners == {<<"o">>}
Plaintexts == {<<"p">>, <<"q">>}

\* The Secret objects of the caller, by class.
Generatables == {"g"}
Logins == {"n"}
Encrypteds == {"e1", "e2"}
Objs == Generatables \cup Logins \cup Encrypteds

\* Python's None, and an attribute that is not set on an object.
None == << "None" >>
Absent == << "absent" >>

\* The values of Login.iteration: unset, or an int.
IntOf(i) == << "int", i >>
Iterations == {None} \cup {IntOf(i) : i \in 0..MaxIteration}

\* A master-password source that is a callback returning pw.
Callback(pw) == << "callback", pw >>
Callbacks == {Callback(pw) : pw \in Passwords}

---------------------------------------------------------------------------
(* The in-memory record a method works on, and exceptions. *)

\* The store and the objects before a call, with no exception raised.
Store == [secrets |-> secrets, secrets_encrypted |-> secrets_encrypted,
          master |-> master, owner |-> owner, modified |-> modified,
          objs |-> objs, calls |-> calls,
          err |-> "ok", ret |-> None, keys |-> << >>]

Raise(s, e) == [s EXCEPT !.err = e]
Return(s, v) == [s EXCEPT !.ret = v]

\* Statement sequencing: F runs unless an exception is already propagating.
Then(s, F(_)) == IF s.err = "ok" THEN F(s) ELSE s

\* Python truthiness of an optional string: None and "" are falsy.
Truthy(v) == v # None /\ v # << >>

\* str.join with "|" as the separator.
RECURSIVE Join(_)
Join(parts) ==
    IF Len(parts) = 0 THEN << >>
    ELSE IF Len(parts) = 1 THEN parts[1]
    ELSE parts[1] \o <<"|">> \o Join(Tail(parts))

---------------------------------------------------------------------------
(* passthesalt.crypto and passthesalt.model, which core.py imports. *)

\* encrypt(secrets, key): a blob holding the mapping under the key.
encrypt(mapping, key) == << "ciphertext", key, mapping >>

\* decrypt(ciphertext, key): the mapping, or a failure under another key.
decrypt(ciphertext, key) ==
    IF ciphertext[2] = key THEN [failed |-> FALSE, mapping |-> ciphertext[3]]
    ELSE [failed |-> TRUE]

\* generate(salt, key, version, length): a deterministic function of its arguments.
generate(salt, key, version, length) == << "generated", salt, key, version, length >>

\* ModifiedModel.touch: the modification timestamp moves on.
touch(s) == [s EXCEPT !.modified = @ + 1]

---------------------------------------------------------------------------
(* class Secret *)

\* Algorithm.version's default.
AlgorithmVersion == 1

\* A freshly constructed secret of o's class; an Encrypted holds the plaintext p.
NewSecret(o, p) ==
    [kind      |-> IF o \in Encrypteds THEN "encrypted"
                   ELSE IF o \in Logins THEN "generatable.login" ELSE "generatable",
     salt      |-> IF o \in Generatables THEN <<"s">> ELSE Absent,
     domain    |-> IF o \in Logins THEN <<"d">> ELSE Absent,
     username  |-> IF o \in Logins THEN <<"u">> ELSE Absent,
     iteration |-> IF o \in Logins THEN None ELSE Absent,
     version   |-> IF o \in Encrypteds THEN Absent ELSE AlgorithmVersion,
     length    |-> IF o \in Encrypteds THEN Absent ELSE None,
     secret    |-> IF o \in Encrypteds THEN p ELSE Absent,
     given     |-> IF o \in Encrypteds THEN p ELSE Absent,
     label     |-> Absent,
     pts       |-> Absent]

\* The store a bound secret refers to.
Pts == << "pts" >>

\* A fault: _pts reads as unset instead of raising outside of a context.
getattr_pts_unchecked(s, o) == Return(s, s.objs[o].pts)

\* Secret.__getattr__ for _label and _pts: ContextError outside of a context.
getattr_label(s, o) ==
    IF s.objs[o].label = Absent THEN Raise(s, "ContextError")
    ELSE Return(s, s.objs[o].label)

getattr_pts(s, o) ==
    IF s.objs[o].pts = Absent THEN Raise(s, "ContextError")
    ELSE Return(s, s.objs[o].pts)

\* Secret.add_context
add_context(s, o, label) ==
    [s EXCEPT !.objs[o].label = label, !.objs[o].pts = Pts]

\* Secret.check_context
check_context(s, o) ==
    Then(getattr_pts(s, o), LAMBDA s1 : getattr_label(s1, o))

\* Secret.remove_context: del raises AttributeError for an attribute that is not set.
remove_context(s, o) ==
    IF s.objs[o].label = Absent \/ s.objs[o].pts = Absent THEN Raise(s, "AttributeError")
    ELSE [s EXCEPT !.objs[o].label = Absent, !.objs[o].pts = Absent]

\* Secret.add and Secret.remove
Secret_add(s, o) == check_context(s, o)
Secret_remove(s, o) == check_context(s, o)

---------------------------------------------------------------------------
(* PassTheSalt.master_key *)

callable(m) == m \in Callbacks

\* A fault: the callback's result is used and not kept.
master_key_uncached(s) ==
    IF s.master = None THEN Raise(s, "ConfigurationError")
    ELSE LET pw == IF callable(s.master) THEN s.master[2] ELSE s.master
             s1 == IF callable(s.master) THEN [s EXCEPT !.calls = @ + 1] ELSE s
             key == IF Truthy(s1.owner) THEN Join(<<s1.owner, pw>>) ELSE Join(<<pw>>)
         IN [s1 EXCEPT !.ret = key, !.keys = Append(@, key)]

\* The property master_key: ret is the key, and keys records every key read.
master_key(s) ==
    IF s.master = None THEN Raise(s, "ConfigurationError")
    ELSE LET s1 == IF callable(s.master)
                   THEN [s EXCEPT !.master = s.master[2], !.calls = @ + 1]
                   ELSE s
             key == IF Truthy(s1.owner) THEN Join(<<s1.owner, s1.master>>)
                    ELSE Join(<<s1.master>>)
         IN [s1 EXCEPT !.ret = key, !.keys = Append(@, key)]

---------------------------------------------------------------------------
(* class Generatable and class Login *)

Digits == <<"0", "1", "2", "3", "4", "5", "6", "7", "8", "9">>

\* str() of a natural number.
RECURSIVE str(_)
str(i) == IF i < 10 THEN <<Digits[i + 1]>> ELSE str(i \div 10) \o <<Digits[(i % 10) + 1]>>

\* A fault: the salt is made without the iteration.
Login_salt_fixed(ob) == Join(<<ob.domain, ob.username, str(0)>>)

\* Login.salt: domain|username|iteration, an iteration of None counting as 0.
Login_salt(ob) ==
    Join(<<ob.domain, ob.username,
           str(IF ob.iteration = None \/ ob.iteration[2] = 0 THEN 0 ELSE ob.iteration[2])>>)

\* The attribute salt of a Generatable (a field) or a Login (a property).
salt(ob) == IF ob.kind = "generatable.login" THEN Login_salt(ob) ELSE ob.salt

\* A fault: the label the secret is bound to is mixed into the salt.
Generatable_get_labelled(s, o) ==
    LET s1 == getattr_pts(s, o)
        s2 == Then(s1, master_key)
    IN Then(s2, LAMBDA s3 :
            Return(s3, generate(salt(s3.objs[o]) \o s3.objs[o].label, s3.ret,
                                s3.objs[o].version, s3.objs[o].length)))

\* Generatable.get
Generatable_get(s, o) ==
    LET s1 == getattr_pts(s, o)
        s2 == Then(s1, master_key)
    IN Then(s2, LAMBDA s3 :
            Return(s3, generate(salt(s3.objs[o]), s3.ret,
                                s3.objs[o].version, s3.objs[o].length)))

---------------------------------------------------------------------------
(* class Encrypted *)

\* The empty dict.
EmptyDict == [l \in {} |-> << >>]

\* d[k] = v and del d[k] on a dict.
DictSet(d, k, v) == [l \in DOMAIN d \cup {k} |-> IF l = k THEN v ELSE d[l]]
DictDel(d, k) == [l \in DOMAIN d \ {k} |-> d[l]]

\* A change: the entries that the ciphertext holds by now are kept when the mapping
\* is encrypted.
Encrypted__encrypt_merging(s, o, mapping) ==
    LET held == IF s.secrets_encrypted = None THEN EmptyDict ELSE s.secrets_encrypted[3]
        merged == [l \in DOMAIN held \cup DOMAIN mapping |->
                      IF l \in DOMAIN mapping THEN mapping[l] ELSE held[l]]
    IN IF DOMAIN merged = {}
       THEN Then(getattr_pts(s, o), LAMBDA s1 : [s1 EXCEPT !.secrets_encrypted = None])
       ELSE LET s1 == getattr_pts(s, o)
                s2 == Then(s1, master_key)
            IN Then(s2, LAMBDA s3 :
                    [s3 EXCEPT !.secrets_encrypted = encrypt(merged, s3.ret)])

\* A fault: the mapping is encrypted under the master password without the owner.
Encrypted__encrypt_ownerless(s, o, mapping) ==
    IF DOMAIN mapping = {}
    THEN Then(getattr_pts(s, o), LAMBDA s1 : [s1 EXCEPT !.secrets_encrypted = None])
    ELSE LET s1 == getattr_pts(s, o)
             s2 == Then(s1, master_key)
         IN Then(s2, LAMBDA s3 :
                 [s3 EXCEPT !.secrets_encrypted = encrypt(mapping, s3.master)])

\* Encrypted._encrypt
Encrypted__encrypt(s, o, mapping) ==
    IF DOMAIN mapping = {}
    THEN Then(getattr_pts(s, o), LAMBDA s1 : [s1 EXCEPT !.secrets_encrypted = None])
    ELSE LET s1 == getattr_pts(s, o)
             s2 == Then(s1, master_key)
         IN Then(s2, LAMBDA s3 :
                 [s3 EXCEPT !.secrets_encrypted = encrypt(mapping, s3.ret)])

\* Encrypted._decrypt
Encrypted__decrypt(s, o) ==
    LET s1 == getattr_pts(s, o)
    IN Then(s1, LAMBDA s2 :
            IF ~Truthy(s2.secrets_encrypted) THEN Return(s2, EmptyDict)
            ELSE Then(master_key(s2), LAMBDA s3 :
                      LET plain == decrypt(s3.secrets_encrypted, s3.ret)
                      IN IF plain.failed THEN Raise(s3, "DecryptError")
                         ELSE Return(s3, plain.mapping)))

\* A fault: the new entry is encrypted alone and not with the entries read.
Encrypted_add_alone(s, o) ==
    Then(Encrypted__decrypt(s, o), LAMBDA s1 :
         IF s1.objs[o].secret = Absent THEN Raise(s1, "AttributeError")
         ELSE Then(getattr_label(s1, o), LAMBDA s2 :
                   LET mapping == DictSet(EmptyDict, s2.ret, s2.objs[o].secret)
                       s3 == [s2 EXCEPT !.objs[o].secret = Absent]
                   IN Then(Encrypted__encrypt(s3, o, mapping), LAMBDA s4 : Secret_add(s4, o))))

\* A fault: the plaintext stays on the object after it has been encrypted.
Encrypted_add_keeping(s, o) ==
    Then(Encrypted__decrypt(s, o), LAMBDA s1 :
         IF s1.objs[o].secret = Absent THEN Raise(s1, "AttributeError")
         ELSE Then(getattr_label(s1, o), LAMBDA s2 :
                   LET mapping == DictSet(s1.ret, s2.ret, s2.objs[o].secret)
                   IN Then(Encrypted__encrypt(s2, o, mapping), LAMBDA s4 : Secret_add(s4, o))))

\* Encrypted.add
Encrypted_add(s, o) ==
    Then(Encrypted__decrypt(s, o), LAMBDA s1 :
         IF s1.objs[o].secret = Absent THEN Raise(s1, "AttributeError")
         ELSE Then(getattr_label(s1, o), LAMBDA s2 :
                   LET mapping == DictSet(s1.ret, s2.ret, s2.objs[o].secret)
                       s3 == [s2 EXCEPT !.objs[o].secret = Absent]
                   IN Then(Encrypted__encrypt(s3, o, mapping), LAMBDA s4 : Secret_add(s4, o))))

\* Encrypted.get
Encrypted_get(s, o) ==
    Then(Encrypted__decrypt(s, o), LAMBDA s1 :
         Then(getattr_label(s1, o), LAMBDA s2 :
              IF s2.ret \in DOMAIN s1.ret THEN Return(s2, s1.ret[s2.ret])
              ELSE Raise(s2, "LabelError")))

\* Encrypted.remove
Encrypted_remove(s, o) ==
    Then(Encrypted__decrypt(s, o), LAMBDA s1 :
         Then(getattr_label(s1, o), LAMBDA s2 :
              IF s2.ret \notin DOMAIN s1.ret THEN Raise(s2, "KeyError")
              ELSE Then(Encrypted__encrypt(s2, o, DictDel(s1.ret, s2.ret)),
                        LAMBDA s3 : Secret_remove(s3, o))))

\* secret.add(), secret.get() and secret.remove(), dispatched on the class.
add(s, o) == IF s.objs[o].kind = "encrypted" THEN Encrypted_add(s, o) ELSE Secret_add(s, o)
get(s, o) == IF s.objs[o].kind = "encrypted" THEN Encrypted_get(s, o) ELSE Generatable_get(s, o)
remove(s, o) ==
    IF s.objs[o].kind = "encrypted" THEN Encrypted_remove(s, o) ELSE Secret_remove(s, o)

---------------------------------------------------------------------------
(* class PassTheSalt *)

\* The dict secrets is a sequence of <<label, object>> items in insertion order.
Keys(d) == [i \in 1..Len(d) |-> d[i][1]]
KeySet(d) == {d[i][1] : i \in 1..Len(d)}
Lookup(d, label) == d[CHOOSE i \in 1..Len(d) : d[i][1] = label][2]
Without(d, label) == SelectSeq(d, LAMBDA item : item[1] # label)

\* re.compile: a repeat needs something to repeat, and only once.
ValidRegex(pattern) ==
    \A i \in 1..Len(pattern) :
        pattern[i] = "*" => (i > 1 /\ pattern[i - 1] # "*")

\* regex.match(text): the pattern matches at the start of text.
RECURSIVE Match(_, _)
Match(pattern, text) ==
    IF pattern = << >> THEN TRUE
    ELSE LET first == text # << >> /\ (pattern[1] = "." \/ pattern[1] = text[1])
         IN IF Len(pattern) >= 2 /\ pattern[2] = "*"
            THEN \/ Match(Tail(Tail(pattern)), text)
                 \/ first /\ Match(pattern, Tail(text))
            ELSE first /\ Match(Tail(pattern), Tail(text))

\* PassTheSalt.contains
contains(s, label) == label \in KeySet(s.secrets)

\* PassTheSalt.labels
labels(s, pattern) ==
    IF Truthy(pattern)
    THEN IF ~ValidRegex(pattern) THEN Raise(s, "LabelError")
         ELSE Return(s, SelectSeq(Keys(s.secrets), LAMBDA l : Match(pattern, l)))
    ELSE Return(s, Keys(s.secrets))

\* A fault: no exact label is looked for before the pattern is matched.
resolve_unanchored(s, pattern) ==
    Then(labels(s, pattern), LAMBDA s1 :
         IF Len(s1.ret) = 1 THEN Return(s1, s1.ret[1])
         ELSE Raise(s1, "LabelError"))

\* PassTheSalt.resolve
resolve(s, pattern) ==
    IF contains(s, pattern) THEN Return(s, pattern)
    ELSE Then(labels(s, pattern), LAMBDA s1 :
              IF Len(s1.ret) = 1 THEN Return(s1, s1.ret[1])
              ELSE Raise(s1, "LabelError"))

\* A fault: the label is not checked before the secret is added.
PassTheSalt_add_unchecked(s, label, o) ==
    Then(add(add_context(s, o, label), o), LAMBDA s1 :
         touch([s1 EXCEPT !.secrets = Append(Without(@, label), <<label, o>>)]))

\* PassTheSalt.add
PassTheSalt_add(s, label, o) ==
    IF contains(s, label) THEN Raise(s, "LabelError")
    ELSE Then(add(add_context(s, o, label), o), LAMBDA s1 :
              touch([s1 EXCEPT !.secrets = Append(@, <<label, o>>)]))

\* PassTheSalt.get
PassTheSalt_get(s, label) ==
    IF contains(s, label) THEN Return(s, Lookup(s.secrets, label))
    ELSE Raise(s, "KeyError")

\* PassTheSalt.pop
PassTheSalt_pop(s, label) ==
    IF ~contains(s, label) THEN Raise(s, "LabelError")
    ELSE LET o == Lookup(s.secrets, label)
             s1 == [s EXCEPT !.secrets = Without(@, label)]
         IN Then(remove(s1, o), LAMBDA s2 :
                 Then(remove_context(s2, o), LAMBDA s3 : Return(touch(s3), o)))

\* PassTheSalt.remove
PassTheSalt_remove(s, label) ==
    Then(PassTheSalt_pop(s, label), LAMBDA s1 : Return(s1, None))

\* A fault: the new label is not checked before the secret is popped.
PassTheSalt_move_unchecked(s, label, new_label) ==
    Then(PassTheSalt_pop(s, label), LAMBDA s1 :
         PassTheSalt_add(s1, new_label, s1.ret))

\* PassTheSalt.move
PassTheSalt_move(s, label, new_label) ==
    IF contains(s, new_label) THEN Raise(s, "LabelError")
    ELSE Then(PassTheSalt_pop(s, label), LAMBDA s1 :
              PassTheSalt_add(s1, new_label, s1.ret))

---------------------------------------------------------------------------
(* Secret.from_dict and Secret.to_dict *)

\* The registry of the Secret classes by kind, and its inverse.
SECRETS ==
    ("encrypted" :> "Encrypted") @@ ("generatable" :> "Generatable")
        @@ ("generatable.login" :> "Login")

KINDS ==
    [cls \in {SECRETS[kind] : kind \in DOMAIN SECRETS} |->
        CHOOSE kind \in DOMAIN SECRETS : SECRETS[kind] = cls]

\* The serialized Algorithm records.
Algorithms == {[version |-> AlgorithmVersion], [version |-> AlgorithmVersion, length |-> 8]}

\* The serialized fields of an Encrypted, of Generatables and of Logins, the latter
\* with and without an iteration.
SecretBodies ==
    {[modified |-> 0]}
    \cup {[modified |-> 0, salt |-> st, algorithm |-> a] :
             st \in {<<"s">>, <<"t">>}, a \in Algorithms}
    \cup {[modified |-> 0, domain |-> <<"d">>, username |-> u, algorithm |-> a] :
             u \in {<<"u">>, <<"v">>}, a \in Algorithms}
    \cup {[modified |-> 0, domain |-> <<"d">>, username |-> <<"u">>, iteration |-> i,
           algorithm |-> a] : i \in 0..1, a \in Algorithms}

\* The kind tags a record may carry: the registered ones and two that are not.
Tags == DOMAIN SECRETS \cup {"login", "secret"}

\* The records a caller passes to Secret.from_dict: untagged, and tagged in every way.
SerializedRecords ==
    SecretBodies \cup {DictSet(body, "kind", tag) : body \in SecretBodies, tag \in Tags}

\* The fields a class serializes, and those among them that may be missing.
Fields(cls) ==
    IF cls = "Encrypted" THEN {"modified"}
    ELSE IF cls = "Generatable" THEN {"modified", "salt", "algorithm"}
    ELSE {"modified", "domain", "username", "iteration", "algorithm"}

OptionalFields(cls) == IF cls = "Login" THEN {"iteration"} ELSE {}

\* Model.from_dict of a concrete class, strict: the object with the record's fields,
\* or DeserializationError for a missing or an unknown key.
Model_from_dict(cls, d) ==
    IF Fields(cls) \ OptionalFields(cls) \subseteq DOMAIN d /\ DOMAIN d \subseteq Fields(cls)
    THEN [err |-> "ok", ret |-> [cls |-> cls, attrs |-> d]]
    ELSE [err |-> "DeserializationError", ret |-> None]

\* Model.to_dict: the object's fields.
Model_to_dict(secret) == secret.attrs

\* Secret.from_dict called on Secret: ret is the object, d the caller's dict after
\* the call, from which the kind has been popped.
Secret_from_dict(d) ==
    LET rest == DictDel(d, "kind")
    IN IF "kind" \notin DOMAIN d \/ d["kind"] \notin DOMAIN SECRETS
       THEN [err |-> "DeserializationError", ret |-> None, d |-> rest]
       ELSE LET r == Model_from_dict(SECRETS[d["kind"]], rest)
            IN [err |-> r.err, ret |-> r.ret, d |-> rest]

\* A fault: the kind written is the top-level kind, as display() shows it.
Secret_to_dict_toplevel(secret) ==
    IF secret.cls \notin DOMAIN KINDS THEN [err |-> "SerializationError", ret |-> None]
    ELSE [err |-> "ok",
          ret |-> DictSet(Model_to_dict(secret), "kind",
                          IF secret.cls = "Encrypted" THEN "encrypted" ELSE "generatable")]

\* Secret.to_dict
Secret_to_dict(secret) ==
    IF secret.cls \notin DOMAIN KINDS THEN [err |-> "SerializationError", ret |-> None]
    ELSE [err |-> "ok", ret |-> DictSet(Model_to_dict(secret), "kind", KINDS[secret.cls])]

---------------------------------------------------------------------------
(* The state after construction, and the caller's operations. *)

\* The callers that may be inside pts.add at the same time, and none of them in it.
Threads == {"t1", "t2"}

NoThreads ==
    [t \in Threads |-> [pc |-> "idle", label |-> None, o |-> "e1", mapping |-> EmptyDict]]

\* No record has been given to from_dict.
NoRecord ==
    [phase |-> "none", given |-> None, d |-> None, secret |-> None, out |-> None,
     err |-> "ok"]

\* PassTheSalt.__init__, and the secrets the caller has constructed.
Init ==
    /\ secrets = << >>
    /\ secrets_encrypted = None
    /\ master = None
    /\ owner = None
    /\ modified = 0
    /\ objs = [o \in Objs |-> NewSecret(o, <<"p">>)]
    /\ calls = 0
    /\ op = "init"
    /\ nops = 0
    /\ result = [err |-> "ok", val |-> None, keys |-> << >>]
    /\ serial = NoRecord
    /\ threads = NoThreads

\* The store and the objects as a call leaves them, and what the caller sees of it.
Leaves(s, val) ==
    /\ nops < MaxOps
    /\ nops' = nops + 1
    /\ secrets' = s.secrets
    /\ secrets_encrypted' = s.secrets_encrypted
    /\ master' = s.master
    /\ owner' = s.owner
    /\ modified' = s.modified
    /\ objs' = s.objs
    /\ calls' = s.calls
    /\ result' = [err |-> s.err, val |-> IF s.err = "ok" THEN val ELSE None, keys |-> s.keys]
    /\ serial' = serial
    /\ threads' = threads

\* pts.with_master(m)
WithMaster(m) ==
    /\ op' = "with_master"
    /\ Leaves([Store EXCEPT !.master = m, !.calls = 0], None)

\* pts.config.owner = w
SetOwner(w) ==
    /\ op' = "set_owner"
    /\ Leaves([Store EXCEPT !.owner = w], None)

\* Generatable(salt=...), Login(domain=..., username=...) or Encrypted(p): a new
\* object takes the place of one the store does not hold.
Construct(o, p) ==
    /\ \A i \in 1..Len(secrets) : secrets[i][2] # o
    /\ o \notin Encrypteds => p = <<"p">>
    /\ op' = "construct"
    /\ Leaves([Store EXCEPT !.objs[o] = NewSecret(o, p)], None)

\* login.iteration = i
SetIteration(o, i) ==
    /\ op' = "set_iteration"
    /\ Leaves([Store EXCEPT !.objs[o].iteration = i], None)

\* pts.add(label, o)
Add(label, o) ==
    /\ op' = "add"
    /\ Leaves(PassTheSalt_add(Store, label, o), None)

\* pts.get(label).get()
Get(label) ==
    /\ op' = "get"
    /\ LET s == Then(PassTheSalt_get(Store, label), LAMBDA s1 : get(s1, s1.ret))
       IN Leaves(s, s.ret)

\* pts.pop(label)
Pop(label) ==
    /\ op' = "pop"
    /\ LET s == PassTheSalt_pop(Store, label)
       IN Leaves(s, <<"secret", s.ret>>)

\* pts.remove(label)
Remove(label) ==
    /\ op' = "remove"
    /\ Leaves(PassTheSalt_remove(Store, label), None)

\* pts.move(label, new_label)
Move(label, new_label) ==
    /\ op' = "move"
    /\ Leaves(PassTheSalt_move(Store, label, new_label), None)

\* pts.labels(pattern)
ListLabels(pattern) ==
    /\ op' = "labels"
    /\ LET s == labels(Store, pattern)
       IN Leaves(s, s.ret)

\* pts.resolve(pattern)
Resolve(pattern) ==
    /\ op' = "resolve"
    /\ LET s == resolve(Store, pattern)
       IN Leaves(s, s.ret)

\* o.add(), o.get() and o.remove(), called on a secret directly.
SecretAdd(o) ==
    /\ op' = "secret.add"
    /\ Leaves(add(Store, o), None)

SecretGet(o) ==
    /\ op' = "secret.get"
    /\ LET s == get(Store, o)
       IN Leaves(s, s.ret)

SecretRemove(o) ==
    /\ op' = "secret.remove"
    /\ Leaves(remove(Store, o), None)

\* The operations that configure and change the store, and read a secret.
Next ==
    \/ \E m \in Passwords \cup Callbacks : WithMaster(m)
    \/ \E w \in Owners \cup {None} : SetOwner(w)
    \/ \E o \in Objs, p \in Plaintexts : Construct(o, p)
    \/ \E label \in Labels, o \in Objs : Add(label, o)
    \/ \E label \in Labels : Get(label)
    \/ \E label \in Labels : Pop(label)
    \/ \E label \in Labels : Remove(label)
    \/ \E label, new_label \in Labels : Move(label, new_label)

Spec == Init /\ [][Next]_vars

\* A store constructed with its master password, PassTheSalt().with_master(m), and
\* then only added to, read, popped from and moved in.
InitStore ==
    /\ secrets = << >>
    /\ secrets_encrypted = None
    /\ master \in Passwords
    /\ owner = None
    /\ modified = 0
    /\ objs = [o \in Objs |-> NewSecret(o, <<"p">>)]
    /\ calls = 0
    /\ op = "with_master"
    /\ nops = 0
    /\ result = [err |-> "ok", val |-> None, keys |-> << >>]
    /\ serial = NoRecord
    /\ threads = NoThreads

NextStore ==
    \/ \E o \in Objs, p \in Plaintexts : Construct(o, p)
    \/ \E label \in Labels, o \in Objs : Add(label, o)
    \/ \E label \in Labels : Get(label)
    \/ \E label \in Labels : Pop(label)
    \/ \E label \in Labels : Remove(label)
    \/ \E label, new_label \in Labels : Move(label, new_label)

SpecStore == InitStore /\ [][NextStore]_vars

\* The store reconfigured with another master password or owner between additions,
\* removals and moves.
NextKeys ==
    \/ \E m \in Passwords \cup Callbacks : WithMaster(m)
    \/ \E w \in Owners \cup {None} : SetOwner(w)
    \/ \E label \in Labels, o \in Objs : Add(label, o)
    \/ \E label \in Labels : Remove(label)
    \/ \E label, new_label \in Labels : Move(label, new_label)

SpecKeys == Init /\ [][NextKeys]_vars

\* A Login whose iteration is changed before and after it is added and read.
NextLogin ==
    \/ \E m \in Passwords : WithMaster(m)
    \/ \E o \in Logins, i \in Iterations : SetIteration(o, i)
    \/ \E label \in Labels, o \in Logins : Add(label, o)
    \/ \E label \in Labels : Get(label)

SpecLogin == Init /\ [][NextLogin]_vars

\* The label queries, on the stores that adding and popping generatable secrets
\* builds.
NextLabels ==
    \/ \E label \in Labels, o \in Generatables \cup Logins : Add(label, o)
    \/ \E label \in Labels : Pop(label)
    \/ \E pattern \in Patterns \cup {None} : ListLabels(pattern)
    \/ \E pattern \in Patterns : Resolve(pattern)

SpecLabels == Init /\ [][NextLabels]_vars

\* Secrets constructed, added and popped, and their methods called directly.
NextDirect ==
    \/ \E m \in Passwords \cup Callbacks : WithMaster(m)
    \/ \E o \in Objs, p \in Plaintexts : Construct(o, p)
    \/ \E label \in Labels, o \in Objs : Add(label, o)
    \/ \E label \in Labels : Pop(label)
    \/ \E o \in Objs : SecretAdd(o)
    \/ \E o \in Objs : SecretGet(o)
    \/ \E o \in Objs : SecretRemove(o)

SpecDirect == Init /\ [][NextDirect]_vars

\* A serialized record in the caller's hands: given is the record as the caller
\* built it, d the dict object that is passed on.
InitSerde ==
    /\ secrets = << >>
    /\ secrets_encrypted = None
    /\ master = None
    /\ owner = None
    /\ modified = 0
    /\ objs = [o \in Objs |-> NewSecret(o, <<"p">>)]
    /\ calls = 0
    /\ op = "init"
    /\ nops = 0
    /\ result = [err |-> "ok", val |-> None, keys |-> << >>]
    /\ \E d \in SerializedRecords :
           serial = [phase |-> "record", given |-> d, d |-> d, secret |-> None,
                     out |-> None, err |-> "ok"]
    /\ threads = NoThreads

\* secret = Secret.from_dict(d)
FromDict ==
    /\ serial.phase = "record"
    /\ op' = "from_dict"
    /\ LET r == Secret_from_dict(serial.d)
       IN serial' = [serial EXCEPT !.phase = IF r.err = "ok" THEN "loaded" ELSE "failed",
                                   !.d = r.d, !.secret = r.ret, !.err = r.err]
    /\ UNCHANGED <<secrets, secrets_encrypted, master, owner, modified, objs, calls, nops,
                   result, threads>>

\* out = secret.to_dict()
ToDict ==
    /\ serial.phase = "loaded"
    /\ op' = "to_dict"
    /\ LET r == Secret_to_dict(serial.secret)
       IN serial' = [serial EXCEPT !.phase = IF r.err = "ok" THEN "dumped" ELSE "failed",
                                   !.out = r.ret, !.err = r.err]
    /\ UNCHANGED <<secrets, secrets_encrypted, master, owner, modified, objs, calls, nops,
                   result, threads>>

NextSerde == FromDict \/ ToDict

SpecSerde == InitSerde /\ [][NextSerde]_vars

\* Two callers about to add the Encrypted secrets e1 and e2 under different labels
\* to an empty store that has its master password.
InitRace ==
    /\ secrets = << >>
    /\ secrets_encrypted = None
    /\ master \in Passwords
    /\ owner = None
    /\ modified = 0
    /\ \E p1, p2 \in Plaintexts :
           objs = [o \in Objs |-> NewSecret(o, IF o = "e1" THEN p1 ELSE p2)]
    /\ calls = 0
    /\ op = "with_master"
    /\ nops = 0
    /\ result = [err |-> "ok", val |-> None, keys |-> << >>]
    /\ serial = NoRecord
    /\ \E l1, l2 \in Labels :
           /\ l1 # l2
           /\ threads = [t \in Threads |->
                            [pc |-> "add", label |-> IF t = "t1" THEN l1 ELSE l2,
                             o |-> IF t = "t1" THEN "e1" ELSE "e2", mapping |-> EmptyDict]]

\* The store and the objects as a statement of thread t leaves them; the thread goes
\* on at pc, or stops where an exception was raised.
Runs(t, s, pc, mapping) ==
    /\ secrets' = s.secrets
    /\ secrets_encrypted' = s.secrets_encrypted
    /\ master' = s.master
    /\ owner' = s.owner
    /\ modified' = s.modified
    /\ objs' = s.objs
    /\ calls' = s.calls
    /\ threads' = [threads EXCEPT ![t].pc = IF s.err = "ok" THEN pc ELSE "failed",
                                   ![t].mapping = IF s.err = "ok" THEN mapping ELSE @]
    /\ UNCHANGED <<nops, result, serial>>

\* pts.add up to secret.add(): the label is checked and the context added.
ThreadBegin(t) ==
    /\ threads[t].pc = "add"
    /\ op' = "thread.add"
    /\ LET s == IF contains(Store, threads[t].label) THEN Raise(Store, "LabelError")
                ELSE add_context(Store, threads[t].o, threads[t].label)
       IN Runs(t, s, "decrypt", threads[t].mapping)

\* Encrypted.add: secrets = self._decrypt()
ThreadDecrypt(t) ==
    /\ threads[t].pc = "decrypt"
    /\ op' = "thread.decrypt"
    /\ LET s == Encrypted__decrypt(Store, threads[t].o)
       IN Runs(t, s, "insert", s.ret)

\* Encrypted.add: secrets[self._label] = self.secret; del self.secret
ThreadInsert(t) ==
    /\ threads[t].pc = "insert"
    /\ op' = "thread.insert"
    /\ LET o == threads[t].o
           s == IF objs[o].secret = Absent THEN Raise(Store, "AttributeError")
                ELSE Then(getattr_label(Store, o), LAMBDA s1 :
                          [s1 EXCEPT !.objs[o].secret = Absent])
       IN Runs(t, s, "encrypt",
               IF s.err = "ok" THEN DictSet(threads[t].mapping, s.ret, objs[o].secret)
               ELSE threads[t].mapping)

\* Encrypted.add: self._encrypt(secrets)
ThreadEncrypt(t) ==
    /\ threads[t].pc = "encrypt"
    /\ op' = "thread.encrypt"
    /\ Runs(t, Encrypted__encrypt(Store, threads[t].o, threads[t].mapping), "finish",
            threads[t].mapping)

\* Encrypted.add: super().add(); then pts.add stores the secret and touches.
ThreadFinish(t) ==
    /\ threads[t].pc = "finish"
    /\ op' = "thread.finish"
    /\ LET s == Then(Secret_add(Store, threads[t].o), LAMBDA s1 :
                     touch([s1 EXCEPT !.secrets =
                                Append(@, <<threads[t].label, threads[t].o>>)]))
       IN Runs(t, s, "done", threads[t].mapping)

\* The statements of the two callers in any order.
NextRace ==
    \/ \E t \in Threads : ThreadBegin(t)
    \/ \E t \in Threads : ThreadDecrypt(t)
    \/ \E t \in Threads : ThreadInsert(t)
    \/ \E t \in Threads : ThreadEncrypt(t)
    \/ \E t \in Threads : ThreadFinish(t)

SpecRace == InitRace /\ [][NextRace]_vars

---------------------------------------------------------------------------
(* What the claims speak of. *)

\* The mapping that secrets_encrypted holds, as decrypting it with its key yields it.
Substore == IF secrets_encrypted = None THEN EmptyDict ELSE secrets_encrypted[3]

\* The labels of the outer mapping that refer to an Encrypted secret.
EncryptedLabels ==
    {label \in KeySet(secrets) : objs[Lookup(secrets, label)].kind = "encrypted"}

\* The last operation was a mutation of the store.
Mutations == {"add", "pop", "remove", "move"}

\* The outer mapping, the substore and every secret are as they were.
StoreUnchanged ==
    /\ secrets' = secrets
    /\ secrets_encrypted' = secrets_encrypted
    /\ objs' = objs

\* What secret.get() of the secret under label gives: the exception and the value.
ValueAt(s, label) ==
    LET r == get(s, Lookup(s.secrets, label))
    IN <<r.err, IF r.err = "ok" THEN r.ret ELSE None>>

---------------------------------------------------------------------------
(* The claims. *)

\* C1: after any sequence of store operations, the decrypted substore has exactly
\* the labels that the outer mapping binds to Encrypted secrets, and each maps to
\* the plaintext its secret was constructed with.
C1_SubstoreMatchesOuter ==
    /\ DOMAIN Substore = EncryptedLabels
    /\ \A label \in EncryptedLabels :
           label \in DOMAIN Substore =>
               Substore[label] = objs[Lookup(secrets, label)].given

\* C2: for a secret of any variant, move(a, b) on a store that contains a and not b
\* completes, and then the store contains b and not a, and the secret under b gives
\* the value that the secret under a gave before.
C2_MoveKeepsValue ==
    [][\A a, b \in Labels :
           (contains(Store, a) /\ ~contains(Store, b) /\ Move(a, b)) =>
               /\ result'.err = "ok"
               /\ b \in KeySet(secrets')
               /\ a \notin KeySet(secrets')
               /\ ValueAt(Store', b) = ValueAt(Store, a)]_vars

\* C3: a store mutation that fails leaves the outer mapping, secrets_encrypted, the
\* modification timestamp and every secret's binding and fields as they were.
C3_AllOrNothing ==
    [][(op' \in Mutations /\ result'.err # "ok") =>
           (StoreUnchanged /\ modified' = modified)]_vars

\* C4: add(label, s) on a store that contains label fails with LabelError and leaves
\* the outer mapping, secrets_encrypted and every secret, s included, as they were.
C4_AddExistingFails ==
    [][\A label \in Labels, o \in Objs :
           (contains(Store, label) /\ Add(label, o)) =>
               (result'.err = "LabelError" /\ StoreUnchanged)]_vars

\* C4's case: an add has failed with LabelError on a store that holds a secret.
C4_Witness ==
    op = "add" /\ result.err = "LabelError" /\ Len(secrets) > 0

\* C5: move(label, new_label) fails with LabelError whenever the store contains
\* new_label, new_label = label included, and leaves the store as it was.
C5_MoveOntoExistingFails ==
    [][\A label, new_label \in Labels :
           (contains(Store, new_label) /\ Move(label, new_label)) =>
               (result'.err = "LabelError" /\ StoreUnchanged)]_vars

\* C5's case: a move has failed with LabelError on a store that holds every label,
\* so that the new label was one of them.
C5_Witness ==
    op = "move" /\ result.err = "LabelError" /\ KeySet(secrets) = Labels

\* A secret is as its constructor left it: no context, its plaintext still on it.
Fresh(o) == \E p \in Plaintexts : objs[o] = NewSecret(o, p)

\* C6: get(), add() and remove() called on a freshly constructed secret of any
\* variant fail with ContextError and change neither the store nor the secret.
C6_UnboundRaisesContextError ==
    [][\A o \in Objs :
           (Fresh(o) /\ (SecretAdd(o) \/ SecretGet(o) \/ SecretRemove(o))) =>
               /\ result'.err = "ContextError"
               /\ StoreUnchanged
               /\ modified' = modified
               /\ master' = master]_vars

\* C6's case: a method called on a secret directly has failed with ContextError
\* while every secret was fresh.
C6_Witness ==
    /\ op \in {"secret.add", "secret.get", "secret.remove"}
    /\ result.err = "ContextError"
    /\ \A o \in Objs : Fresh(o)

\* C7: every key of the outer mapping maps to a secret whose bound label is that key
\* and whose bound store is this store.
C7_KeysAreBoundLabels ==
    \A i \in 1..Len(secrets) :
        /\ objs[secrets[i][2]].label = secrets[i][1]
        /\ objs[secrets[i][2]].pts = Pts

\* C8: secrets_encrypted is None exactly when no label of the outer mapping refers to
\* an Encrypted secret, which is exactly when the decrypted substore is empty.
C8_NoneIffNoEncrypted ==
    /\ (secrets_encrypted = None) <=> (EncryptedLabels = {})
    /\ (secrets_encrypted = None) <=> (DOMAIN Substore = {})

\* The labels of the store whose start the pattern, read as a regular expression,
\* matches.
Matching(pattern) ==
    {label \in KeySet(secrets) : ValidRegex(pattern) /\ Match(pattern, label)}

\* C9: on every store, resolve(pattern) returns pattern when it is a label of the
\* store, whatever else it matches; otherwise it returns the one label whose start
\* matches it, and fails with LabelError when none or several do; what it returns is
\* a label of the store.
C9_ResolveSemantics ==
    \A pattern \in Patterns :
        LET r == resolve(Store, pattern)
            exact == pattern \in KeySet(secrets)
            one == Cardinality(Matching(pattern)) = 1
        IN /\ exact => (r.err = "ok" /\ r.ret = pattern)
           /\ (~exact /\ one) => (r.err = "ok" /\ r.ret \in Matching(pattern))
           /\ (~exact /\ ~one) => r.err = "LabelError"
           /\ r.err = "ok" => r.ret \in KeySet(secrets)

\* C9's case: resolve has returned the label "a" from a store that also holds "ab",
\* which every pattern that matches "a" matches too.
C9_Witness ==
    /\ op = "resolve"
    /\ result.err = "ok"
    /\ result.val = <<"a">>
    /\ KeySet(secrets) = {<<"a">>, <<"a", "b">>}

\* The master key that the owner w and the master password pw make.
KeyOf(w, pw) == IF w = None THEN pw ELSE w \o <<"|">> \o pw

\* C10: a callback given to with_master is invoked once, at the first read of
\* master_key; no read is needed to keep it uninvoked, every later read leaves the
\* cached password in place, and every read yields the key of that password.
C10_CallbackInvokedOnce ==
    [][/\ calls' \in {0, 1}
       /\ (callable(master) /\ op' # "with_master") =>
              IF result'.keys # << >>
              THEN calls' = 1 /\ master' = master[2]
              ELSE calls' = 0 /\ master' = master
       /\ (calls = 1 /\ op' # "with_master") => (calls' = 1 /\ master' = master)
       /\ (calls' = 1) =>
              \A i \in 1..Len(result'.keys) : result'.keys[i] = KeyOf(owner', master')]_vars

\* C10's case: with the callback invoked once, an operation has read master_key
\* twice, the second time from the cache.
C10_Witness ==
    calls = 1 /\ Len(result.keys) >= 2 /\ result.err = "ok"

\* C11: pop(label) on a label the store does not contain fails with LabelError and
\* leaves the store as it was; on a label the store contains it returns the secret
\* that was under it, removes that key and no other from the outer mapping and, for
\* an Encrypted secret, that label and no other from the substore, and leaves the
\* secret unbound, so that get(), add() and remove() on it fail with ContextError.
C11_PopRemovesAndUnbinds ==
    [][\A label \in Labels :
           Pop(label) =>
               IF ~contains(Store, label)
               THEN result'.err = "LabelError" /\ StoreUnchanged
               ELSE LET o == Lookup(secrets, label)
                    IN /\ result'.err = "ok"
                       /\ result'.val = <<"secret", o>>
                       /\ secrets' = Without(secrets, label)
                       /\ Substore' = IF objs[o].kind = "encrypted"
                                      THEN DictDel(Substore, label)
                                      ELSE Substore
                       /\ get(Store', o).err = "ContextError"
                       /\ add(Store', o).err = "ContextError"
                       /\ remove(Store', o).err = "ContextError"]_vars

\* The password that the configured master-password source yields.
PasswordOf(m) == IF callable(m) THEN m[2] ELSE m

\* The value that depends on nothing but the secret's salt, version and length and
\* the store's owner and master password.
ValueOf(ob, w, m) == generate(salt(ob), KeyOf(w, PasswordOf(m)), ob.version, ob.length)

\* C12: get() of a bound Generatable or Login returns a value that its salt, its
\* algorithm version and length, and the store's owner and master password
\* determine: the label it is bound to, the other secrets of the store and the
\* operations that came before have no part in it.
C12_GetDependsOnRecordAndKey ==
    /\ \A o \in Generatables \cup Logins :
           objs[o].pts # Absent =>
               LET r == get(Store, o)
               IN IF master = None THEN r.err = "ConfigurationError"
                  ELSE r.err = "ok" /\ r.ret = ValueOf(objs[o], owner, master)
    /\ (op = "get" /\ result.err = "ok" /\ result.val[1] = "generated") =>
           \E o \in Generatables \cup Logins :
               result.val = ValueOf(objs[o], owner, master)

\* C12's case: a generated value has been read from a store with an owner that
\* holds two secrets.
C12_Witness ==
    /\ op = "get"
    /\ result.err = "ok"
    /\ result.val[1] = "generated"
    /\ owner # None
    /\ Len(secrets) = 2

\* A record is validly tagged: its kind is registered and its fields are those of
\* the class registered for it.
ValidTagged(d) ==
    /\ "kind" \in DOMAIN d
    /\ d["kind"] \in {"encrypted", "generatable", "generatable.login"}
    /\ LET cls == SECRETS[d["kind"]]
           keys == DOMAIN d \ {"kind"}
       IN Fields(cls) \ OptionalFields(cls) \subseteq keys /\ keys \subseteq Fields(cls)

FrameExcept(Ls) ==
    /\ \A l \in Labels \ Ls :
           /\ (l \in DOMAIN Substore) <=> (l \in DOMAIN Substore')
           /\ (l \in DOMAIN Substore) => Substore'[l] = Substore[l]
    /\ \A i \in 1..Len(secrets) :
           objs[secrets[i][2]].kind # "encrypted" =>
               /\ \E j \in 1..Len(secrets') : secrets'[j] = secrets[i]
               /\ objs'[secrets[i][2]] = objs[secrets[i][2]]

\* C14: adding an Encrypted secret under a label, and removing an Encrypted secret
\* that is bound to a label, changes the substore at that label only: the add puts
\* the plaintext there, the remove deletes the entry, the plaintext of every other
\* label is as before and no Generatable or Login entry of the outer mapping changes.
C14_EncryptedFrame ==
    [][\A label \in Labels :
           /\ \A o \in Encrypteds :
                  Add(label, o) =>
                      /\ FrameExcept({label})
                      /\ (result'.err = "ok") =>
                             (label \in DOMAIN Substore' /\ Substore'[label] = objs[o].secret)
           /\ (/\ contains(Store, label)
               /\ objs[Lookup(secrets, label)].kind = "encrypted"
               /\ (Pop(label) \/ Remove(label))) =>
                  LET bound == objs[Lookup(secrets, label)].label
                  IN /\ FrameExcept({bound})
                     /\ (result'.err = "ok") => bound \notin DOMAIN Substore']_vars

\* C14's case: an Encrypted secret has been added to a substore that held another.
C14_Witness ==
    /\ op = "add"
    /\ result.err = "ok"
    /\ Len(secrets) = 2
    /\ DOMAIN Substore = Labels
    /\ \A i \in 1..Len(secrets) : objs[secrets[i][2]].kind = "encrypted"

\* C15: in every reachable state no Encrypted secret that the outer mapping holds
\* carries its plaintext: the field secret is gone from the object once it has been
\* added, and the plaintext is in secrets_encrypted only.
C15_NoPlaintextInStore ==
    \A i \in 1..Len(secrets) :
        objs[secrets[i][2]].kind = "encrypted" => objs[secrets[i][2]].secret = Absent

\* C15's case: the outer mapping holds an Encrypted secret, whose plaintext is in
\* the substore.
C15_Witness ==
    \E i \in 1..Len(secrets) :
        /\ objs[secrets[i][2]].kind = "encrypted"
        /\ secrets[i][1] \in DOMAIN Substore
        /\ Substore[secrets[i][1]] = objs[secrets[i][2]].given

\* Both callers have decrypted before either has encrypted: neither has read the
\* entry of the other.
Overlapped ==
    \A t, u \in Threads : t # u => threads[u].label \notin DOMAIN threads[t].mapping

\* C16: when two callers add Encrypted secrets under different labels and both have
\* returned, both labels are in the outer mapping; if both decrypted before either
\* encrypted, the substore holds the entry of only one of them, that of the caller
\* that encrypted last, and otherwise it holds both.
C16_LostUpdate ==
    (\A t \in Threads : threads[t].pc = "done") =>
        /\ KeySet(secrets) = {threads[t].label : t \in Threads}
        /\ IF Overlapped
           THEN \E t \in Threads :
                    /\ DOMAIN Substore = {threads[t].label}
                    /\ Substore[threads[t].label] = objs[threads[t].o].given
           ELSE /\ DOMAIN Substore = {threads[t].label : t \in Threads}
                /\ \A t \in Threads : Substore[threads[t].label] = objs[threads[t].o].given

\* C16's case: both callers have returned after both had decrypted before either
\* encrypted.
C16_Witness ==
    /\ \A t \in Threads : threads[t].pc = "done"
    /\ Overlapped
    /\ Len(secrets) = 2

\* What master_key reads of the store.
KeySource ==
    [master |-> master, owner |-> owner, calls |-> calls,
     err |-> "ok", ret |-> None, keys |-> << >>]

\* What master_key returns now: the exception and the key.
KeyNow ==
    LET k == master_key(KeySource)
    IN <<k.err, IF k.err = "ok" THEN k.ret ELSE None>>

\* secrets_encrypted, when present, decrypts under the key that master_key returns
\* now.
Decrypts ==
    secrets_encrypted # None =>
        (KeyNow[1] = "ok" /\ ~decrypt(secrets_encrypted, KeyNow[2]).failed)

\* C17: whenever secrets_encrypted is present it decrypts under the key that
\* master_key returns now, after any sequence of add, remove and move interleaved
\* with with_master and assignments to config.owner.
C17_DecryptsUnderCurrentKey == Decrypts

\* C17, amended: an operation that writes secrets_encrypted leaves it decrypting
\* under the key that master_key returns after it, and it goes on decrypting as long
\* as no operation changes that key; with_master and an assignment to config.owner
\* do not write secrets_encrypted.
C17_DecryptsUnderKeyOfLastWrite ==
    [][/\ (secrets_encrypted' # secrets_encrypted) => Decrypts'
       /\ (Decrypts /\ KeyNow' = KeyNow) => Decrypts'
       /\ (op' \in {"with_master", "set_owner"}) => secrets_encrypted' = secrets_encrypted]_vars

\* C17's case: a store with an owner has written secrets_encrypted, which decrypts
\* under the key of the owner and the master password.
C17_Witness ==
    /\ op = "add"
    /\ result.err = "ok"
    /\ owner # None
    /\ secrets_encrypted # None
    /\ decrypt(secrets_encrypted, KeyOf(owner, PasswordOf(master))).failed = FALSE

\* Python's (iteration or 0).
IterationOrZero(i) == IF i = None THEN 0 ELSE i[2]

\* domain + "|" + username + "|" + the decimal digits of i.
SaltWith(ob, i) == ob.domain \o <<"|">> \o ob.username \o <<"|">> \o str(i)

\* C18: the salt of a Login is domain|username|(iteration or 0), computed anew at
\* every access, and an assignment that changes the iteration from any value, unset
\* included, to any other value changes the salt.
C18_IterationChangesSalt ==
    [][op' = "set_iteration" =>
           \A o \in Logins :
               /\ salt(objs'[o]) = SaltWith(objs'[o], IterationOrZero(objs'[o].iteration))
               /\ (objs'[o].iteration # objs[o].iteration) =>
                      salt(objs'[o]) # salt(objs[o])]_vars

\* C18, amended: the salt of a Login is domain|username|(iteration or 0), computed
\* anew at every access, so that get() after an assignment to iteration uses the
\* new salt; the assignment changes the salt exactly when it changes
\* (iteration or 0): between unset and 0 the salt stays the same.
C18_IterationOrZeroChangesSalt ==
    [][op' = "set_iteration" =>
           \A o \in Logins :
               /\ salt(objs'[o]) = SaltWith(objs'[o], IterationOrZero(objs'[o].iteration))
               /\ (IterationOrZero(objs'[o].iteration) # IterationOrZero(objs[o].iteration))
                      <=> (salt(objs'[o]) # salt(objs[o]))
               /\ (objs'[o].pts # Absent /\ master' # None) =>
                      get(Store', o).ret[2] =
                          SaltWith(objs'[o], IterationOrZero(objs'[o].iteration))]_vars

\* C18's case: the iteration of a Login that the store holds has been set to a
\* number of two digits.
C18_Witness ==
    /\ op = "set_iteration"
    /\ \E i \in 1..Len(secrets) :
           /\ secrets[i][2] \in Logins
           /\ objs[secrets[i][2]].iteration = IntOf(10)
    /\ master # None

\* The secret objects that are values of the outer mapping.
Held == {secrets[i][2] : i \in 1..Len(secrets)}

\* C19: after any sequence of store operations, those that fail part-way included,
\* a secret object is bound exactly when it is a value of the outer mapping, and a
\* bound secret is bound to a label under which the store holds it.
C19_BoundIffHeld ==
    \A o \in Objs :
        /\ (objs[o].label # Absent /\ objs[o].pts # Absent) <=> (o \in Held)
        /\ (objs[o].label # Absent) =>
               (contains(Store, objs[o].label) /\ Lookup(secrets, objs[o].label) = o)

\* The mapping that the secrets_encrypted of the store record s holds.
SubstoreOf(s) == IF s.secrets_encrypted = None THEN EmptyDict ELSE s.secrets_encrypted[3]

\* The store as add(label, o) followed by remove(label) leaves it, whether or not
\* the caller has had to catch an exception of the add.
AddThenRemove(label, o) ==
    PassTheSalt_remove([PassTheSalt_add(Store, label, o) EXCEPT !.err = "ok"], label)

\* C20: in every reachable state, for every label the store does not contain and a
\* secret of any variant, add(label, s) followed by remove(label) restores the
\* labels of the outer mapping in their order, the decrypted substore, and whether
\* secrets_encrypted is None.
C20_AddRemoveRestores ==
    \A label \in Labels, o \in Objs :
        ~contains(Store, label) =>
            LET s == AddThenRemove(label, o)
            IN /\ Keys(s.secrets) = Keys(secrets)
               /\ SubstoreOf(s) = Substore
               /\ (s.secrets_encrypted = None) <=> (secrets_encrypted = None)

====
